---- MODULE Spec2Model ----
(***************************************************************************)
(* FastFeast: the cart / order / payment lifecycle of the server.          *)
(*                                                                         *)
(* MemStorage (server/storage) is a handful of maps; the routes            *)
(* (server/routes) are async handlers that suspend at every await.  A      *)
(* handler with several awaits is modelled as one action per segment       *)
(* between two awaits; the requests suspended at an await are kept in the  *)
(* bag `pending`.  The response a handler sends is kept in `res`.          *)
(*                                                                         *)
(* generateId (Math.random + Date.now) is modelled as a fresh identifier   *)
(* taken from a counter.  Strings that no handler inspects                 *)
(* (deliveryAddress, estimatedDeliveryTime, specialInstructions) and the   *)
(* timestamps are left out of the records; a request body that fails the   *)
(* zod schema is the body with valid = FALSE.                              *)
(***************************************************************************)
EXTENDS Integers, Sequences, FiniteSets, Bags, TLC

\* ---------------------------------------------------------------- bounds
NumUsers == 2
NumFoods == 2
MaxQty == 2
MaxCartQty == 3
MaxObjects == 3
MaxOrders == 2
MaxInFlight == 1
NumEmails == 2
MaxRegistering == 2

Users == 1..NumUsers
Foods == 1..NumFoods
\* the quantities of a request; PUT /api/cart/:id does not validate its
\* quantity: zero and a negative value are among them
Quantities == 1..MaxQty
PutQuantities == (0 - 1)..MaxQty
CartQtyRange == (0 - 1)..MaxCartQty
Emails == 1..NumEmails
Usernames == {"asha", "ravi"}

\* ------------------------------------------------------------- the state
\* users     : MemStorage.users, id -> User
\* cartItems : MemStorage.cartItems, id -> CartItem
\* orders    : MemStorage.orders, id -> Order
\* idCount   : number of identifiers generateId has handed out
\* intents   : the processor's payment intents, id -> intent
\* pending   : bag of handlers suspended at an await
\* res       : the response sent by the last step (NoResponse if none)
\* flow      : history variable, the uninterrupted scenario in progress
VARIABLES users, cartItems, orders, idCount, intents, pending, res, flow

vars == <<users, cartItems, orders, idCount, intents, pending, res, flow>>

\* "no value": an absent optional id (undefined)
None == 0

NoOrder ==
    [id |-> None, userId |-> None, restaurantId |-> None, items |-> <<>>,
     totalAmount |-> 0, deliveryFee |-> 0, status |-> "", paymentStatus |-> "",
     stripePaymentIntentId |-> None]

\* ------------------------------------------------------- map operations
MapSet(m, k, v) == [x \in (DOMAIN m) \cup {k} |-> IF x = k THEN v ELSE m[x]]
MapDelete(m, k) == [x \in (DOMAIN m) \ {k} |-> m[x]]
EmptyMap == [x \in {} |-> None]

Min(S) == CHOOSE x \in S : \A y \in S : x <= y

\* the sum over the line items of price x quantity
RECURSIVE LineSum(_)
LineSum(items) ==
    IF items = <<>> THEN 0
    ELSE items[1].price * items[1].quantity + LineSum(Tail(items))

\* ----------------------------------------------------------- MemStorage
generateId == idCount + 1

\* mutant: the lookup never finds the existing item
findCartItemNone(u, f) == None

\* Array.from(this.cartItems.values()).find(...): the first match in
\* insertion order; identifiers are handed out in increasing order and
\* Map.set on an existing key keeps its position.
findCartItem(u, f) ==
    LET matches == {i \in DOMAIN cartItems :
                       cartItems[i].userId = u /\ cartItems[i].foodItemId = f}
    IN  IF matches = {} THEN None ELSE Min(matches)

\* mutant: a quantity below one is stored as one
updateCartItemQuantityAtLeastOne(m, cartItemId, quantity) ==
    MapSet(m, cartItemId,
           [m[cartItemId] EXCEPT
               !.quantity = IF quantity < 1 THEN 1 ELSE quantity])

\* updateCartItemQuantity: the store after the call (throws when absent)
updateCartItemQuantity(m, cartItemId, quantity) ==
    MapSet(m, cartItemId, [m[cartItemId] EXCEPT !.quantity = quantity])

\* mutant: an existing item gets the new quantity instead of the sum
addToCartOverwrite(u, f, q) ==
    LET existing == findCartItem(u, f)
    IN  IF existing # None
        THEN updateCartItemQuantity(cartItems, existing, q)
        ELSE MapSet(cartItems, generateId,
                    [id |-> generateId, userId |-> u, foodItemId |-> f,
                     quantity |-> q])

\* addToCart: the store after the call
addToCart(u, f, q) ==
    LET existing == findCartItem(u, f)
    IN  IF existing # None
        THEN updateCartItemQuantity(cartItems, existing,
                                    cartItems[existing].quantity + q)
        ELSE MapSet(cartItems, generateId,
                    [id |-> generateId, userId |-> u, foodItemId |-> f,
                     quantity |-> q])

\* addToCart: the CartItem it returns
addToCartResult(u, f, q) ==
    LET existing == findCartItem(u, f)
    IN  IF existing # None
        THEN [cartItems[existing] EXCEPT !.quantity = @ + q]
        ELSE [id |-> generateId, userId |-> u, foodItemId |-> f, quantity |-> q]

\* createUser: the User it builds (the hashed password is left out)
createUser(userData) ==
    [id |-> generateId, email |-> userData.email,
     username |-> userData.username]

\* getUserByEmail: the users with that email (empty when it returns null)
getUserByEmail(email) ==
    {users[i] : i \in {j \in DOMAIN users : users[j].email = email}}

getCartByUser(m, u) == {m[i] : i \in {j \in DOMAIN m : m[j].userId = u}}

\* mutant: an absent id removes the oldest item instead
removeFromCartOrOldest(m, cartItemId) ==
    IF cartItemId \in DOMAIN m \/ m = EmptyMap
    THEN MapDelete(m, cartItemId)
    ELSE MapDelete(m, Min(DOMAIN m))

removeFromCart(m, cartItemId) == MapDelete(m, cartItemId)

\* mutant: only the first item of the user is deleted
clearCartFirstOnly(m, u) ==
    LET own == {j \in DOMAIN m : m[j].userId = u}
    IN  IF own = {} THEN m ELSE MapDelete(m, Min(own))

\* mutant: the items of every user are deleted
clearCartEveryone(m, u) == EmptyMap

\* mutant: the entries are collected and never deleted
clearCartKeepsAll(m, u) == m

clearCart(m, u) ==
    [i \in {j \in DOMAIN m : m[j].userId # u} |-> m[i]]

\* mutant: the id of the oldest order is used again
createOrderReusesId(orderData) ==
    [orderData EXCEPT !.id = IF orders = EmptyMap THEN generateId
                             ELSE Min(DOMAIN orders)]

\* mutant: the server recomputes the total from the line items
createOrderRecomputed(orderData) ==
    [orderData EXCEPT !.id = generateId,
                      !.totalAmount =
                          LineSum(orderData.items) + orderData.deliveryFee]

\* createOrder: the Order it builds from the parsed data
createOrder(orderData) == [orderData EXCEPT !.id = generateId]

getOrderById(id) == IF id \in DOMAIN orders THEN orders[id] ELSE NoOrder

getOrdersByUser(u) ==
    {orders[i] : i \in {j \in DOMAIN orders : orders[j].userId = u}}

\* mutant: the status is not written
updateOrderStatusKeeps(m, orderId, status) == m

\* updateOrderStatus: the store after the call (throws when absent)
updateOrderStatus(m, orderId, status) ==
    MapSet(m, orderId, [m[orderId] EXCEPT !.status = status])

\* mutant: the intent id is overwritten also when none is supplied
updatePaymentStatusDropsIntent(m, orderId, paymentStatus, paymentIntentId) ==
    MapSet(m, orderId,
           [m[orderId] EXCEPT !.paymentStatus = paymentStatus,
                              !.stripePaymentIntentId = paymentIntentId])

\* mutant: the intent id of the order is never overwritten
updatePaymentStatusKeepsIntent(m, orderId, paymentStatus, paymentIntentId) ==
    MapSet(m, orderId, [m[orderId] EXCEPT !.paymentStatus = paymentStatus])

\* updatePaymentStatus: the store after the call (throws when absent);
\* paymentIntentId || order.stripePaymentIntentId
updatePaymentStatus(m, orderId, paymentStatus, paymentIntentId) ==
    MapSet(m, orderId,
           [m[orderId] EXCEPT
               !.paymentStatus = paymentStatus,
               !.stripePaymentIntentId =
                   IF paymentIntentId # None THEN paymentIntentId ELSE @])

\* --------------------------------------------------------------- schema
\* mutant: the owner named by the body wins over the caller
insertOrderSchemaParseBodyOwner(body, u) ==
    [id |-> None, userId |-> body.userId, restaurantId |-> body.restaurantId,
     items |-> body.items, totalAmount |-> body.totalAmount,
     deliveryFee |-> body.deliveryFee, status |-> "pending",
     paymentStatus |-> "pending",
     stripePaymentIntentId |-> body.stripePaymentIntentId]

\* mutant: the statuses named by the body win over the route's
insertOrderSchemaParseBodyStatus(body, u) ==
    [id |-> None, userId |-> u, restaurantId |-> body.restaurantId,
     items |-> body.items, totalAmount |-> body.totalAmount,
     deliveryFee |-> body.deliveryFee, status |-> body.status,
     paymentStatus |-> body.paymentStatus,
     stripePaymentIntentId |-> body.stripePaymentIntentId]

\* insertOrderSchema.parse({...req.body, userId, status, paymentStatus}):
\* the three fields set by the route win over the body's
insertOrderSchemaParse(body, u) ==
    [id |-> None, userId |-> u, restaurantId |-> body.restaurantId,
     items |-> body.items, totalAmount |-> body.totalAmount,
     deliveryFee |-> body.deliveryFee, status |-> "pending",
     paymentStatus |-> "pending",
     stripePaymentIntentId |-> body.stripePaymentIntentId]

\* Math.round(amount * 100)
ToPaise(amount) == amount * 100

\* -------------------------------------------------------------- inputs
NoSuchId == 0 - 1
SeedPrice == <<280, 220, 120, 80, 40, 90>>
\* the line items a request carries: MaxQty of every food at its seeded price
Basket ==
    [f \in Foods |-> [foodItemId |-> f, quantity |-> MaxQty,
                      price |-> SeedPrice[f]]]
ItemLists == {Basket}
DeliveryFees == {0, 25}
\* the request body of POST /api/orders; a body may also carry userId,
\* status and paymentStatus of its own
OrderBodies ==
    {[valid |-> v, restaurantId |-> 1, items |-> it,
      totalAmount |-> IF exact THEN LineSum(it) + fee ELSE 1,
      deliveryFee |-> fee, userId |-> NumUsers, status |-> "delivered",
      paymentStatus |-> "paid", stripePaymentIntentId |-> None] :
        v \in BOOLEAN, it \in ItemLists, exact \in BOOLEAN,
        fee \in DeliveryFees}
\* the body of an order whose total is right
PlainBodies ==
    {b \in OrderBodies :
        b.valid /\ b.deliveryFee = 0 /\ b.totalAmount = LineSum(b.items)}
\* the bodies of an order whose total is right and of one whose total is not
PayBodies ==
    {b \in OrderBodies :
        b.valid /\ (b.deliveryFee = 0 <=> b.totalAmount = LineSum(b.items))}
\* the body the checkout page sends for a cart that spans restaurants: the
\* line items of the first group only
FirstGroupBodies ==
    {[b EXCEPT !.items = <<Basket[1]>>,
               !.totalAmount = LineSum(<<Basket[1]>>)] : b \in PlainBodies}
Amounts == {1}

\* ----------------------------------------------------------- responses
Response(route, u, status, body) ==
    [route |-> route, userId |-> u, status |-> status, body |-> body]

NoResponse == Response("", None, 0, {})

\* flow.stage: "none"; "added", "added twice" (POST /api/cart twice in a
\* row for one user and food, the first creating the item); "removed",
\* "removed twice" (DELETE /api/cart/:id twice in a row for one id, the first
\* deleting the item); "cleared", "cleared twice" (DELETE /api/cart twice in
\* a row for one user, the first emptying a cart that held items); "payment
\* status" (updatePaymentStatus called for orderId with intent id piId);
\* "ordering",
\* "ordered", "intent call", "intent", "retrieved", "paid", "confirmed" (the
\* checkout of a user with a non-empty cart, no other request in between;
\* foodItemId is then a food of the cart that was not ordered).  A read by
\* the user of the checkout does not end the scenario: seen collects what
\* the reads were answered while a handler of the checkout was suspended
NoFlow ==
    [stage |-> "none", userId |-> None, orderId |-> None, piId |-> None,
     foodItemId |-> None, itemId |-> None, q1 |-> 0, q2 |-> 0, seen |-> {}]

Suspended(p) == pending (+) SetToBag({p})
Resumed(p) == pending (-) SetToBag({p})
InFlight == BagCardinality(pending)
\* the identifiers generateId has handed out
IssuedIds == 1..idCount
\* cart items, orders and payment intents created so far
Objects == idCount + Cardinality(DOMAIN intents)

Handler(route, pc, u, order, piId, piStatus, piOrderId) ==
    [route |-> route, pc |-> pc, userId |-> u, order |-> order,
     piId |-> piId, piStatus |-> piStatus, piOrderId |-> piOrderId]

Init ==
    /\ users = EmptyMap
    /\ cartItems = EmptyMap
    /\ orders = EmptyMap
    /\ idCount = 0
    /\ intents = EmptyMap
    /\ pending = EmptyBag
    /\ res = NoResponse
    /\ flow = NoFlow

\* ----------------------------------------------------------- auth routes
\* POST /api/register, up to the await of bcrypt.hash: the body is parsed, the
\* email is looked up and, when it is free, the password goes to be hashed
RegisterReq(userData) ==
    IF ~userData.valid \/ getUserByEmail(userData.email) # {}
    THEN /\ res' = Response("POST /api/register", None, 400, {})
         /\ flow' = NoFlow
         /\ UNCHANGED <<users, cartItems, orders, idCount, intents, pending>>
    ELSE /\ InFlight < MaxRegistering
         /\ Objects + InFlight < MaxObjects
         /\ pending' = Suspended([route |-> "POST /api/register",
                                  pc |-> "hash", email |-> userData.email,
                                  username |-> userData.username])
         /\ res' = NoResponse
         /\ flow' = NoFlow
         /\ UNCHANGED <<users, cartItems, orders, idCount, intents>>

RegisterCheck ==
    \E email \in Emails, username \in Usernames, valid \in BOOLEAN :
        RegisterReq([email |-> email, username |-> username,
                     valid |-> valid])

\* POST /api/register, from the await of bcrypt.hash on: createUser, jwt.sign,
\* res.json
RegisterResume(p) ==
    /\ p.route = "POST /api/register"
    /\ users' = MapSet(users, generateId, createUser(p))
    /\ idCount' = idCount + 1
    /\ res' = Response("POST /api/register", generateId, 200,
                       {createUser(p)})
    /\ pending' = Resumed(p)
    /\ flow' = NoFlow
    /\ UNCHANGED <<cartItems, orders, intents>>

RegisterCreate == \E p \in BagToSet(pending) : RegisterResume(p)

\* the bearer token of a request: missing, invalid (a bad signature or an
\* expired token, whatever user it names) or valid for a user
Tokens ==
    {[kind |-> "missing", userId |-> None]} \cup
    {[kind |-> k, userId |-> u] : k \in {"invalid", "valid"}, u \in Users}

\* the tokens of one client: none, an invalid one, and the valid token of
\* the first user
ClientTokens == {t \in Tokens : t.userId \in {None, 1}}

\* the middleware calls next(): no status is sent
Passed == 0

\* mutant: the token is decoded and its signature is not verified
authenticateTokenUnverified(token) ==
    IF token.kind = "missing" THEN 401 ELSE Passed

\* authenticateToken: the status it sends, or Passed
authenticateToken(token) ==
    IF token.kind = "missing" THEN 401
    ELSE IF token.kind # "valid" THEN 403
    ELSE Passed

\* app.<method>(route, authenticateToken, handler)
Authenticated(route, token, handler) ==
    IF authenticateToken(token) = Passed
    THEN handler
    ELSE /\ res' = Response(route, None, authenticateToken(token), {})
         /\ flow' = NoFlow
         /\ UNCHANGED <<users, cartItems, orders, idCount, intents, pending>>

\* In the request actions below u is req.user.id, the user of a token that
\* has passed authenticateToken.

\* ---------------------------------------------------------- cart routes
\* POST /api/cart
PostCartReq(u, f, q, valid) ==
    IF ~valid
    THEN /\ res' = Response("POST /api/cart", u, 400, {})
         /\ flow' = NoFlow
         /\ UNCHANGED <<users, cartItems, orders, idCount, intents, pending>>
    ELSE /\ findCartItem(u, f) = None => Objects < MaxObjects
         /\ addToCartResult(u, f, q).quantity \in CartQtyRange
         /\ cartItems' = addToCart(u, f, q)
         /\ idCount' = IF findCartItem(u, f) = None
                        THEN idCount + 1 ELSE idCount
         /\ res' = Response("POST /api/cart", u, 200,
                            {addToCartResult(u, f, q)})
         /\ flow' = IF findCartItem(u, f) = None
                    THEN [NoFlow EXCEPT !.stage = "added", !.userId = u,
                                        !.foodItemId = f,
                                        !.itemId = generateId, !.q1 = q]
                    ELSE IF /\ flow.stage = "added"
                            /\ flow.userId = u
                            /\ flow.foodItemId = f
                    THEN [flow EXCEPT !.stage = "added twice", !.q2 = q]
                    ELSE NoFlow
         /\ UNCHANGED <<users, orders, intents, pending>>

PostCartOf(foods, quantities, valids) ==
    \E u \in Users, f \in foods, q \in quantities, valid \in valids :
        PostCartReq(u, f, q, valid)

\* POST /api/cart with any body
PostCart == PostCartOf(Foods, Quantities, BOOLEAN)

\* POST /api/cart of a user who fills the cart with one food
PostCartSingle == PostCartOf({1}, {MaxCartQty}, {TRUE})

\* seedData: the foods are created two per restaurant
RestaurantOf(f) == (f + 1) \div 2

\* getFoodItemById on the seeded catalog
getFoodItemById(f) ==
    [id |-> f, price |-> SeedPrice[f], restaurantId |-> RestaurantOf(f)]

\* GET /api/cart
GetCartReq(u) ==
    /\ res' = Response("GET /api/cart", u, 200,
                       {[id |-> c.id, userId |-> c.userId,
                         foodItemId |-> c.foodItemId, quantity |-> c.quantity,
                         foodItem |-> getFoodItemById(c.foodItemId)] :
                            c \in getCartByUser(cartItems, u)})
    /\ flow' = IF /\ flow.stage = "ordering"
                  /\ flow.userId = u
                  /\ \E c \in getCartByUser(cartItems, u),
                        k \in DOMAIN orders[flow.orderId].items :
                        c.foodItemId =
                            orders[flow.orderId].items[k].foodItemId
               THEN [flow EXCEPT !.seen = @ \cup {"ordered, cart not cleared"}]
               ELSE NoFlow
    /\ UNCHANGED <<users, cartItems, orders, idCount, intents, pending>>

\* PUT /api/cart/:id
PutCartReq(u, id, q) ==
    /\ IF id \in DOMAIN cartItems
       THEN /\ cartItems' = updateCartItemQuantity(cartItems, id, q)
            /\ res' = Response("PUT /api/cart/:id", u, 200, {cartItems'[id]})
       ELSE /\ res' = Response("PUT /api/cart/:id", u, 400, {})
            /\ UNCHANGED cartItems
    /\ flow' = NoFlow
    /\ UNCHANGED <<users, orders, idCount, intents, pending>>

PutCartOf(quantities) ==
    \E u \in Users, id \in IssuedIds \cup {NoSuchId}, q \in quantities :
        PutCartReq(u, id, q)

\* PUT /api/cart/:id with any quantity
PutCart == PutCartOf(PutQuantities)

\* PUT /api/cart/:id with a quantity that is not negative
PutCartNat == PutCartOf(PutQuantities \cap Nat)

\* POST /api/cart of one unit of a food
PostCartUnit == PostCartOf(Foods, {1}, {TRUE})

\* DELETE /api/cart/:id
DeleteCartItemReq(u, id) ==
    /\ cartItems' = removeFromCart(cartItems, id)
    /\ res' = Response("DELETE /api/cart/:id", u, 200, {})
    /\ flow' = IF id \in DOMAIN cartItems
               THEN [NoFlow EXCEPT !.stage = "removed", !.userId = u,
                                   !.itemId = id]
               ELSE IF /\ flow.stage = "removed"
                       /\ flow.userId = u
                       /\ flow.itemId = id
               THEN [flow EXCEPT !.stage = "removed twice"]
               ELSE NoFlow
    /\ UNCHANGED <<users, orders, idCount, intents, pending>>

DeleteCartItem ==
    \E u \in Users, id \in IssuedIds \cup {NoSuchId} :
        DeleteCartItemReq(u, id)

\* DELETE /api/cart
DeleteCartReq(u) ==
    /\ cartItems' = clearCart(cartItems, u)
    /\ res' = Response("DELETE /api/cart", u, 200, {})
    /\ flow' = IF getCartByUser(cartItems, u) # {}
               THEN [NoFlow EXCEPT !.stage = "cleared", !.userId = u]
               ELSE IF flow.stage = "cleared" /\ flow.userId = u
               THEN [flow EXCEPT !.stage = "cleared twice"]
               ELSE NoFlow
    /\ UNCHANGED <<users, orders, idCount, intents, pending>>

DeleteCart == \E u \in Users : DeleteCartReq(u)

\* --------------------------------------------------------- order routes
\* history: a food in the cart of u that is not among the line items of the
\* body (None if there is none)
NotOrdered(u, body) ==
    LET ordered == {body.items[k].foodItemId : k \in DOMAIN body.items}
        left == {c.foodItemId : c \in getCartByUser(cartItems, u)} \ ordered
    IN  IF left = {} THEN None ELSE Min(left)

\* mutant: the cart is cleared before the body is parsed
PostOrdersReqClearsFirst(u, body) ==
    IF ~body.valid
    THEN /\ res' = Response("POST /api/orders", u, 400, {})
         /\ flow' = NoFlow
         /\ cartItems' = clearCart(cartItems, u)
         /\ UNCHANGED <<users, orders, idCount, intents, pending>>
    ELSE LET order == createOrder(insertOrderSchemaParse(body, u))
         IN  /\ Objects < MaxObjects
             /\ Cardinality(DOMAIN orders) < MaxOrders
             /\ InFlight < MaxInFlight
             /\ orders' = MapSet(orders, order.id, order)
             /\ idCount' = idCount + 1
             /\ pending' = Suspended(Handler("POST /api/orders", "clearCart",
                                             u, order, None, "", None))
             /\ res' = NoResponse
             /\ flow' = NoFlow
             /\ UNCHANGED <<users, cartItems, intents>>

\* POST /api/orders, up to the await of createOrder
PostOrdersReq(u, body) ==
    IF ~body.valid
    THEN /\ res' = Response("POST /api/orders", u, 400, {})
         /\ flow' = NoFlow
         /\ UNCHANGED <<users, cartItems, orders, idCount, intents, pending>>
    ELSE LET order == createOrder(insertOrderSchemaParse(body, u))
         IN  /\ Objects < MaxObjects
             /\ Cardinality(DOMAIN orders) < MaxOrders
             /\ InFlight < MaxInFlight
             /\ orders' = MapSet(orders, order.id, order)
             /\ idCount' = idCount + 1
             /\ pending' = Suspended(Handler("POST /api/orders", "clearCart",
                                             u, order, None, "", None))
             /\ res' = NoResponse
             /\ flow' = IF InFlight = 0 /\ getCartByUser(cartItems, u) # {}
                        THEN [NoFlow EXCEPT !.stage = "ordering",
                                            !.userId = u,
                                            !.orderId = order.id,
                                            !.foodItemId = NotOrdered(u, body)]
                        ELSE NoFlow
             /\ UNCHANGED <<users, cartItems, intents>>

PostOrdersCreateOf(bodies) ==
    \E u \in Users, body \in bodies : PostOrdersReq(u, body)

\* POST /api/orders with any body
PostOrdersCreate == PostOrdersCreateOf(OrderBodies)

\* POST /api/orders with the body of an order whose total is right
PostOrdersCreatePlain == PostOrdersCreateOf(PlainBodies)

\* POST /api/orders for the first group of the cart
PostOrdersCreateFirstGroup == PostOrdersCreateOf(FirstGroupBodies)

\* POST /api/orders with a right or a wrong total
PostOrdersCreatePay == PostOrdersCreateOf(PayBodies)

\* POST /api/orders, from the await of createOrder on: clearCart, res.json
PostOrdersResume(p) ==
    /\ p.route = "POST /api/orders"
    /\ cartItems' = clearCart(cartItems, p.userId)
    /\ res' = Response("POST /api/orders", p.userId, 200, {p.order})
    /\ pending' = Resumed(p)
    /\ flow' = IF flow.stage = "ordering" /\ flow.orderId = p.order.id
               THEN [flow EXCEPT !.stage = "ordered"] ELSE NoFlow
    /\ UNCHANGED <<users, orders, idCount, intents>>

PostOrdersClearCart == \E p \in BagToSet(pending) : PostOrdersResume(p)

\* mutant: the owner is not compared
orderVisibleToAll(order, u) == order # NoOrder

\* order && order.userId === req.user.id
orderVisible(order, u) == order # NoOrder /\ order.userId = u

\* GET /api/orders
GetOrdersReq(u) ==
    /\ res' = Response("GET /api/orders", u, 200, getOrdersByUser(u))
    /\ flow' = NoFlow
    /\ UNCHANGED <<users, cartItems, orders, idCount, intents, pending>>

GetOrders == \E u \in Users : GetOrdersReq(u)

\* GET /api/orders/:id
GetOrderReq(u, id) ==
    LET order == getOrderById(id)
    IN  /\ res' = IF orderVisible(order, u)
                  THEN Response("GET /api/orders/:id", u, 200, {order})
                  ELSE Response("GET /api/orders/:id", u, 404, {})
        /\ flow' = IF /\ flow.stage = "paid"
                      /\ flow.userId = u
                      /\ flow.orderId = id
                      /\ orderVisible(order, u)
                      /\ order.paymentStatus = "paid"
                      /\ order.status = "pending"
                   THEN [flow EXCEPT !.seen = @ \cup {"paid, not confirmed"}]
                   ELSE NoFlow
        /\ UNCHANGED <<users, cartItems, orders, idCount, intents, pending>>

GetOrder ==
    \E u \in Users, id \in (DOMAIN orders) \cup {NoSuchId} :
        GetOrderReq(u, id)

\* ------------------------------------------------------- payment routes
\* stripe.paymentIntents.create: the intent the processor creates
\* (metadata.userId is written and never read back; it is left out)
NewIntent(amount, orderId) ==
    [id |-> Cardinality(DOMAIN intents) + 1, amount |-> ToPaise(amount),
     orderId |-> orderId, status |-> "requires_payment_method",
     client_secret |-> <<"secret", Cardinality(DOMAIN intents) + 1>>]

\* mutant: a failing processor call marks the order as failed
CreateIntentReqMarksFailed(u, amount, orderId, ok) ==
    IF ~ok
    THEN /\ res' = Response("POST /api/create-payment-intent", u, 500, {})
         /\ flow' = NoFlow
         /\ orders' = IF orderId \in DOMAIN orders
                       THEN updatePaymentStatus(orders, orderId, "failed", None)
                       ELSE orders
         /\ UNCHANGED <<users, cartItems, idCount, intents, pending>>
    ELSE LET pi == NewIntent(amount, orderId)
         IN  /\ Objects < MaxObjects
             /\ InFlight < MaxInFlight
             /\ intents' = MapSet(intents, pi.id, pi)
             /\ pending' = Suspended(Handler(
                               "POST /api/create-payment-intent", "created",
                               u, NoOrder, pi.id, pi.status, orderId))
             /\ res' = NoResponse
             /\ flow' = NoFlow
             /\ UNCHANGED <<users, cartItems, orders, idCount>>

\* POST /api/create-payment-intent, up to the answer of the processor;
\* ok: the processor call succeeds
CreateIntentReq(u, amount, orderId, ok) ==
    IF ~ok
    THEN /\ res' = Response("POST /api/create-payment-intent", u, 500, {})
         /\ flow' = NoFlow
         /\ UNCHANGED <<users, cartItems, orders, idCount, intents, pending>>
    ELSE LET pi == NewIntent(amount, orderId)
         IN  /\ Objects < MaxObjects
             /\ InFlight < MaxInFlight
             /\ intents' = MapSet(intents, pi.id, pi)
             /\ pending' = Suspended(Handler(
                               "POST /api/create-payment-intent", "created",
                               u, NoOrder, pi.id, pi.status, orderId))
             /\ res' = NoResponse
             /\ flow' = IF flow.stage = "ordered" /\ flow.orderId = orderId
                        THEN [flow EXCEPT !.stage = "intent call",
                                          !.piId = pi.id]
                        ELSE NoFlow
             /\ UNCHANGED <<users, cartItems, orders, idCount>>

CreateIntentCall ==
    \E u \in Users, amount \in Amounts,
       orderId \in (DOMAIN orders) \cup {None, NoSuchId}, ok \in BOOLEAN :
        CreateIntentReq(u, amount, orderId, ok)

\* mutant: the guard on orderId is missing
hasOrderIdAlways(p) == TRUE

\* if (orderId)
hasOrderId(p) == p.piOrderId # None

\* POST /api/create-payment-intent, from the answer of the processor on
CreateIntentAnswer(p) ==
    /\ p.route = "POST /api/create-payment-intent"
    /\ pending' = Resumed(p)
    /\ IF hasOrderId(p) /\ p.piOrderId \notin DOMAIN orders
       THEN /\ res' = Response("POST /api/create-payment-intent", p.userId,
                               500, {})
            /\ flow' = NoFlow
            /\ UNCHANGED orders
       ELSE /\ orders' = IF hasOrderId(p)
                         THEN updatePaymentStatus(orders, p.piOrderId,
                                                  "pending", p.piId)
                         ELSE orders
            /\ res' = Response("POST /api/create-payment-intent", p.userId,
                               200,
                               {[clientSecret |->
                                     intents[p.piId].client_secret]})
            /\ flow' = IF flow.stage = "intent call" /\ flow.piId = p.piId
                       THEN [flow EXCEPT !.stage = "intent"] ELSE NoFlow
    /\ UNCHANGED <<users, cartItems, idCount, intents>>

CreateIntentResume == \E p \in BagToSet(pending) : CreateIntentAnswer(p)

\* POST /api/confirm-payment, up to the answer of the processor;
\* ok: the processor call succeeds
ConfirmReq(u, paymentIntentId, ok) ==
    IF ~ok \/ paymentIntentId \notin DOMAIN intents
    THEN /\ res' = Response("POST /api/confirm-payment", u, 500, {})
         /\ flow' = NoFlow
         /\ UNCHANGED <<users, cartItems, orders, idCount, intents, pending>>
    ELSE LET pi == intents[paymentIntentId]
         IN  /\ InFlight < MaxInFlight
             /\ pending' = Suspended(Handler("POST /api/confirm-payment",
                               "retrieved", u, NoOrder, pi.id, pi.status,
                               pi.orderId))
             /\ res' = NoResponse
             /\ flow' = IF /\ flow.stage = "intent"
                           /\ flow.piId = pi.id
                           /\ pi.status = "succeeded"
                        THEN [flow EXCEPT !.stage = "retrieved"] ELSE NoFlow
             /\ UNCHANGED <<users, cartItems, orders, idCount, intents>>

ConfirmRetrieve ==
    \E u \in Users, paymentIntentId \in (DOMAIN intents) \cup {NoSuchId},
       ok \in BOOLEAN :
        ConfirmReq(u, paymentIntentId, ok)

\* mutant: the status of the intent is not looked at
paymentSucceededAlways(p) == TRUE

\* paymentIntent.status === "succeeded"
paymentSucceeded(p) == p.piStatus = "succeeded"

\* POST /api/confirm-payment, from the answer of the processor to the await
\* of updatePaymentStatus
ConfirmAnswer(p) ==
    /\ p.route = "POST /api/confirm-payment"
    /\ p.pc = "retrieved"
    /\ IF ~paymentSucceeded(p)
       THEN /\ res' = Response("POST /api/confirm-payment", p.userId, 400, {})
            /\ pending' = Resumed(p)
            /\ flow' = NoFlow
            /\ UNCHANGED orders
       ELSE IF ~hasOrderId(p)
       THEN /\ res' = Response("POST /api/confirm-payment", p.userId, 200, {})
            /\ pending' = Resumed(p)
            /\ flow' = NoFlow
            /\ UNCHANGED orders
       ELSE IF p.piOrderId \notin DOMAIN orders
       THEN /\ res' = Response("POST /api/confirm-payment", p.userId, 500, {})
            /\ pending' = Resumed(p)
            /\ flow' = NoFlow
            /\ UNCHANGED orders
       ELSE /\ orders' = updatePaymentStatus(orders, p.piOrderId, "paid",
                                             p.piId)
            /\ pending' = Resumed(p) (+)
                            SetToBag({[p EXCEPT !.pc = "updateOrderStatus"]})
            /\ res' = NoResponse
            /\ flow' = IF flow.stage = "retrieved" /\ flow.piId = p.piId
                       THEN [flow EXCEPT !.stage = "paid"] ELSE NoFlow
    /\ UNCHANGED <<users, cartItems, idCount, intents>>

ConfirmResume == \E p \in BagToSet(pending) : ConfirmAnswer(p)

\* POST /api/confirm-payment, from the await of updatePaymentStatus on:
\* updateOrderStatus, res.json
ConfirmLast(p) ==
    /\ p.route = "POST /api/confirm-payment"
    /\ p.pc = "updateOrderStatus"
    /\ orders' = updateOrderStatus(orders, p.piOrderId, "confirmed")
    /\ res' = Response("POST /api/confirm-payment", p.userId, 200, {})
    /\ pending' = Resumed(p)
    /\ flow' = IF flow.stage = "paid" /\ flow.piId = p.piId
               THEN [flow EXCEPT !.stage = "confirmed"] ELSE NoFlow
    /\ UNCHANGED <<users, cartItems, idCount, intents>>

ConfirmFinish == \E p \in BagToSet(pending) : ConfirmLast(p)

\* the processor settles an intent: the customer pays (stripe.confirmPayment
\* in the checkout form); succeeded is final
ProcessorSettle ==
    \E i \in DOMAIN intents :
        /\ intents[i].status = "requires_payment_method"
        /\ intents' = MapSet(intents, i,
                             [intents[i] EXCEPT !.status = "succeeded"])
        /\ res' = NoResponse
        /\ flow' = IF flow.stage = "intent" /\ flow.piId = i
                   THEN flow ELSE NoFlow
        /\ UNCHANGED <<users, cartItems, orders, idCount, pending>>

\* ------------------------------------------------------ the client pages
RECURSIVE SeqOfIds(_)
\* the ids of a set in the order the Map iterates them (insertion order)
SeqOfIds(S) ==
    IF S = {} THEN <<>> ELSE <<Min(S)>> \o SeqOfIds(S \ {Min(S)})

\* useQuery(['/api/cart']): the cart of the user as the pages hold it
cartWithDetails(u) ==
    LET ids == SeqOfIds({i \in DOMAIN cartItems : cartItems[i].userId = u})
    IN  [k \in DOMAIN ids |->
            [id |-> ids[k], quantity |-> cartItems[ids[k]].quantity,
             foodItem |-> getFoodItemById(cartItems[ids[k]].foodItemId)]]

RECURSIVE subtotal(_)
\* Checkout: cartItems.reduce((total, item) => total + price * quantity, 0)
subtotal(cart) ==
    IF cart = <<>> THEN 0
    ELSE cart[1].foodItem.price * cart[1].quantity + subtotal(Tail(cart))

\* Checkout: subtotal > 150 ? 0 : 25
deliveryFee(sub) == IF sub > 150 THEN 0 ELSE 25

\* Checkout: subtotal + deliveryFee
total(cart) == subtotal(cart) + deliveryFee(subtotal(cart))

RECURSIVE cartPageSubtotal(_)
\* Cart: cartItems.reduce((total, item) => total + price * quantity, 0)
cartPageSubtotal(cart) ==
    IF cart = <<>> THEN 0
    ELSE cartPageSubtotal(Tail(cart)) + cart[1].foodItem.price * cart[1].quantity

\* Cart: subtotal > 150 ? 0 : 25
cartPageDeliveryFee(sub) == IF sub > 150 THEN 0 ELSE 25

\* Cart: subtotal + deliveryFee
cartPageTotal(cart) ==
    cartPageSubtotal(cart) + cartPageDeliveryFee(cartPageSubtotal(cart))

\* Checkout.onSubmit: the items of the restaurant of the first cart item
orderItems(cart) ==
    SelectSeq(cart, LAMBDA c :
                  c.foodItem.restaurantId = cart[1].foodItem.restaurantId)

\* Checkout.onSubmit: the body sent to POST /api/orders (the address comes
\* from the validated form)
orderData(cart) ==
    [valid |-> TRUE,
     restaurantId |-> cart[1].foodItem.restaurantId,
     items |-> [k \in DOMAIN orderItems(cart) |->
                   [foodItemId |-> orderItems(cart)[k].foodItem.id,
                    quantity |-> orderItems(cart)[k].quantity,
                    price |-> orderItems(cart)[k].foodItem.price]],
     totalAmount |-> total(cart),
     deliveryFee |-> deliveryFee(subtotal(cart)),
     stripePaymentIntentId |-> None]

\* what the Cart page shows under the items of the cart it holds
CartPageReq(u) ==
    /\ res' = Response("Cart page", u, 200,
                       {[subtotal |-> cartPageSubtotal(cartWithDetails(u)),
                         deliveryFee |-> cartPageDeliveryFee(
                                  cartPageSubtotal(cartWithDetails(u))),
                         total |-> cartPageTotal(cartWithDetails(u))]})
    /\ flow' = NoFlow
    /\ UNCHANGED <<users, cartItems, orders, idCount, intents, pending>>

CartPage == \E u \in Users : CartPageReq(u)

\* what the Checkout page shows in its order summary
CheckoutPageReq(u) ==
    /\ res' = Response("Checkout page", u, 200,
                       {[subtotal |-> subtotal(cartWithDetails(u)),
                         deliveryFee |-> deliveryFee(
                                  subtotal(cartWithDetails(u))),
                         total |-> total(cartWithDetails(u))]})
    /\ flow' = NoFlow
    /\ UNCHANGED <<users, cartItems, orders, idCount, intents, pending>>

CheckoutPage == \E u \in Users : CheckoutPageReq(u)

\* the foods of the seeded catalog priced 120 and 90
SummaryFoods == {f \in 1..Len(SeedPrice) : SeedPrice[f] \in {120, 90}}

\* POST /api/cart of one unit of one of these foods
PostCartSummary == PostCartOf(SummaryFoods, {1}, {TRUE})

\* the add button of the restaurant page: POST /api/cart with one unit of a
\* food of the first or of the second restaurant
PostCartTwoRestaurants ==
    PostCartOf({f \in 1..Len(SeedPrice) : f = 2 * RestaurantOf(f) - 1 /\
                                          RestaurantOf(f) <= 2},
               {1}, {TRUE})

\* Checkout.onSubmit with a cart that is not empty
CheckoutSubmitReq(u) ==
    /\ cartWithDetails(u) # <<>>
    /\ PostOrdersReq(u, orderData(cartWithDetails(u)))

CheckoutSubmit == \E u \in Users : CheckoutSubmitReq(u)

\* createOrderMutation.onSuccess: createPaymentIntent(order.id) with the
\* total of the page
CheckoutCreateIntent ==
    /\ res.route = "POST /api/orders"
    /\ res.status = 200
    /\ \E order \in res.body, ok \in BOOLEAN :
          CreateIntentReq(res.userId, order.totalAmount, order.id, ok)

\* CheckoutForm.handleSubmit: stripe.confirmPayment for the client secret
\* the page holds; the payment succeeds or fails; the page then shows a
\* toast and goes to /order-success, and calls no route of the server
CheckoutFormSubmit ==
    /\ res.route = "POST /api/create-payment-intent"
    /\ res.status = 200
    /\ \E i \in DOMAIN intents, paid \in BOOLEAN :
          /\ res.body = {[clientSecret |-> intents[i].client_secret]}
          /\ intents[i].status = "requires_payment_method"
          /\ intents' = IF paid
                        THEN MapSet(intents, i,
                                    [intents[i] EXCEPT !.status = "succeeded"])
                        ELSE intents
          /\ res' = NoResponse
          /\ flow' = IF flow.stage = "intent" /\ flow.piId = i
                     THEN flow ELSE NoFlow
          /\ UNCHANGED <<users, cartItems, orders, idCount, pending>>

\* ------------------------------------------------- calls of the storage
\* what a storage operation throws
Thrown(op, message) == Response(op, None, 0, {[message |-> message]})

PaymentStatuses == {"pending", "paid", "failed"}
\* the optional third argument: left out, or the id of an intent
IntentArgs == {None, 1}

\* storage.updatePaymentStatus(orderId, paymentStatus, paymentIntentId?)
CallUpdatePaymentStatus(orderId, paymentStatus, paymentIntentId) ==
    /\ IF orderId \notin DOMAIN orders
       THEN /\ res' = Thrown("updatePaymentStatus", "Order not found")
            /\ UNCHANGED orders
       ELSE /\ orders' = updatePaymentStatus(orders, orderId, paymentStatus,
                                             paymentIntentId)
            /\ res' = Response("updatePaymentStatus", None, 0,
                               {orders'[orderId]})
    /\ flow' = [NoFlow EXCEPT !.stage = "payment status",
                              !.orderId = orderId, !.piId = paymentIntentId]
    /\ UNCHANGED <<users, cartItems, idCount, intents, pending>>

StoreUpdatePaymentStatus ==
    \E orderId \in (DOMAIN orders) \cup {NoSuchId},
       paymentStatus \in PaymentStatuses,
       paymentIntentId \in IntentArgs :
        CallUpdatePaymentStatus(orderId, paymentStatus, paymentIntentId)

\* storage.updateOrderStatus(orderId, "confirmed")
CallUpdateOrderStatus(orderId) ==
    /\ IF orderId \notin DOMAIN orders
       THEN /\ res' = Thrown("updateOrderStatus", "Order not found")
            /\ UNCHANGED orders
       ELSE /\ orders' = updateOrderStatus(orders, orderId, "confirmed")
            /\ res' = Response("updateOrderStatus", None, 0,
                               {orders'[orderId]})
    /\ flow' = NoFlow
    /\ UNCHANGED <<users, cartItems, idCount, intents, pending>>

StoreUpdateOrderStatus ==
    \E orderId \in (DOMAIN orders) \cup {NoSuchId} :
        CallUpdateOrderStatus(orderId)

\* ------------------------------------------- the routes behind the token
ApiPostCartReq(token) ==
    Authenticated("POST /api/cart", token,
                  PostCartReq(token.userId, 1, MaxCartQty, TRUE))

ApiGetCartReq(token) ==
    Authenticated("GET /api/cart", token, GetCartReq(token.userId))

ApiPutCartReq(token) ==
    Authenticated("PUT /api/cart/:id", token,
                  \E id \in IssuedIds \cup {NoSuchId} :
                      PutCartReq(token.userId, id, 0))

ApiDeleteCartItemReq(token) ==
    Authenticated("DELETE /api/cart/:id", token,
                  \E id \in IssuedIds \cup {NoSuchId} :
                      DeleteCartItemReq(token.userId, id))

ApiDeleteCartReq(token) ==
    Authenticated("DELETE /api/cart", token, DeleteCartReq(token.userId))

ApiPostOrdersReq(token) ==
    Authenticated("POST /api/orders", token,
                  \E body \in PlainBodies : PostOrdersReq(token.userId, body))

ApiGetOrdersReq(token) ==
    Authenticated("GET /api/orders", token, GetOrdersReq(token.userId))

ApiGetOrderReq(token) ==
    Authenticated("GET /api/orders/:id", token,
                  \E id \in (DOMAIN orders) \cup {NoSuchId} :
                      GetOrderReq(token.userId, id))

ApiCreateIntentReq(token) ==
    Authenticated("POST /api/create-payment-intent", token,
                  \E amount \in Amounts,
                     orderId \in (DOMAIN orders) \cup {None, NoSuchId},
                     ok \in BOOLEAN :
                      CreateIntentReq(token.userId, amount, orderId, ok))

ApiConfirmReq(token) ==
    Authenticated("POST /api/confirm-payment", token,
                  \E paymentIntentId \in (DOMAIN intents) \cup {NoSuchId},
                     ok \in BOOLEAN :
                      ConfirmReq(token.userId, paymentIntentId, ok))

ApiPostCart == \E token \in ClientTokens : ApiPostCartReq(token)
ApiGetCart == \E token \in ClientTokens : ApiGetCartReq(token)
ApiPutCart == \E token \in ClientTokens : ApiPutCartReq(token)
ApiDeleteCartItem == \E token \in ClientTokens : ApiDeleteCartItemReq(token)
ApiDeleteCart == \E token \in ClientTokens : ApiDeleteCartReq(token)
ApiPostOrders == \E token \in ClientTokens : ApiPostOrdersReq(token)
ApiGetOrders == \E token \in ClientTokens : ApiGetOrdersReq(token)
ApiGetOrder == \E token \in ClientTokens : ApiGetOrderReq(token)
ApiCreateIntent == \E token \in ClientTokens : ApiCreateIntentReq(token)
ApiConfirm == \E token \in ClientTokens : ApiConfirmReq(token)

\* a request to a cart route with that token
CartRequest(token) ==
    \/ ApiPostCartReq(token)
    \/ ApiGetCartReq(token)
    \/ ApiPutCartReq(token)
    \/ ApiDeleteCartItemReq(token)
    \/ ApiDeleteCartReq(token)

\* a request to an order route with that token
OrderRequest(token) ==
    \/ ApiPostOrdersReq(token)
    \/ ApiGetOrdersReq(token)
    \/ ApiGetOrderReq(token)

\* a request to a payment route with that token
PaymentRequest(token) ==
    \/ ApiCreateIntentReq(token)
    \/ ApiConfirmReq(token)

\* ------------------------------------------------------- specifications
\* every route behind authenticateToken, called by one client
NextApi ==
    \/ ApiPostCart
    \/ ApiGetCart
    \/ ApiPutCart
    \/ ApiDeleteCartItem
    \/ ApiDeleteCart
    \/ ApiPostOrders
    \/ PostOrdersClearCart
    \/ ApiGetOrders
    \/ ApiGetOrder
    \/ ApiCreateIntent
    \/ CreateIntentResume
    \/ ApiConfirm
    \/ ConfirmResume
    \/ ConfirmFinish
    \/ ProcessorSettle

\* the cart routes and the checkout of the first group of the cart
NextCart ==
    \/ PostCart
    \/ PutCartNat
    \/ DeleteCartItem
    \/ DeleteCart
    \/ PostOrdersCreateFirstGroup
    \/ PostOrdersClearCart

\* the cart items and their quantities
NextPut ==
    \/ PostCartUnit
    \/ PutCart
    \/ DeleteCartItem

\* the order store: orders are created, then the two update operations are
\* called with any arguments
NextStore ==
    \/ PostOrdersCreatePlain
    \/ PostOrdersClearCart
    \/ StoreUpdatePaymentStatus
    \/ StoreUpdateOrderStatus

\* the checkout as the client pages drive it
NextCheckout ==
    \/ PostCartTwoRestaurants
    \/ CheckoutSubmit
    \/ PostOrdersClearCart
    \/ CheckoutCreateIntent
    \/ CreateIntentResume
    \/ CheckoutFormSubmit

\* the summaries of the Cart and the Checkout page over the carts the routes
\* can build
NextSummary ==
    \/ PostCartSummary
    \/ PutCart
    \/ CartPage
    \/ CheckoutPage

\* orders with a body that passes or fails the validation, from carts that
\* hold items
NextReject ==
    \/ PostCartUnit
    \/ PostOrdersCreate
    \/ PostOrdersClearCart

\* registration
NextReg ==
    \/ RegisterCheck
    \/ RegisterCreate

\* order creation with any body and the order reads
NextRead ==
    \/ PostOrdersCreate
    \/ PostOrdersClearCart
    \/ GetOrders
    \/ GetOrder

\* order creation and the payment routes
NextPay ==
    \/ PostOrdersCreatePay
    \/ PostOrdersClearCart
    \/ CreateIntentCall
    \/ CreateIntentResume
    \/ ConfirmRetrieve
    \/ ConfirmResume
    \/ ConfirmFinish
    \/ ProcessorSettle

\* the whole lifecycle: cart, order, payment
NextLife ==
    \/ PostCartSingle
    \/ PostOrdersCreatePlain
    \/ PostOrdersClearCart
    \/ CreateIntentCall
    \/ CreateIntentResume
    \/ ConfirmRetrieve
    \/ ConfirmResume
    \/ ConfirmFinish
    \/ ProcessorSettle

SpecCart == Init /\ [][NextCart]_vars
SpecPut == Init /\ [][NextPut]_vars
SpecReg == Init /\ [][NextReg]_vars
SpecStore == Init /\ [][NextStore]_vars
SpecReject == Init /\ [][NextReject]_vars
SpecSummary == Init /\ [][NextSummary]_vars
\* a suspended handler is resumed, and the page runs its onSuccess callback
SpecCheckout ==
    /\ Init
    /\ [][NextCheckout]_vars
    /\ WF_vars(PostOrdersClearCart)
    /\ WF_vars(CreateIntentResume)
    /\ WF_vars(CheckoutCreateIntent)
SpecApi == Init /\ [][NextApi]_vars
SpecRead == Init /\ [][NextRead]_vars
SpecPay == Init /\ [][NextPay]_vars
SpecLife == Init /\ [][NextLife]_vars

\* --------------------------------------------------------------- claims
CartItemsOf(u, f) ==
    {i \in DOMAIN cartItems :
        cartItems[i].userId = u /\ cartItems[i].foodItemId = f}

\* C1: in every reachable state of the cart store there is at most one
\* CartItem for each (userId, foodItemId) pair.
C1_OneItemPerPair ==
    \A u \in Users, f \in Foods : Cardinality(CartItemsOf(u, f)) <= 1

\* an existing item has just been added to again, next to another item
C1_Witness ==
    /\ flow.stage = "added twice"
    /\ Cardinality(DOMAIN cartItems) >= 2

\* C2: from a cart with no item for (u, f), Add(u, f, q1) followed by
\* Add(u, f, q2) leaves exactly one CartItem for (u, f), with quantity
\* q1 + q2 and the id the first Add returned, and the second Add returns
\* that item.
C2_AddTwiceSums ==
    flow.stage = "added twice" =>
        /\ CartItemsOf(flow.userId, flow.foodItemId) = {flow.itemId}
        /\ cartItems[flow.itemId].id = flow.itemId
        /\ cartItems[flow.itemId].quantity = flow.q1 + flow.q2
        /\ res = Response("POST /api/cart", flow.userId, 200,
                          {cartItems[flow.itemId]})

\* the two Adds carried different quantities
C2_Witness ==
    /\ flow.stage = "added twice"
    /\ flow.q1 # flow.q2

ConfirmHandlers == {p \in BagToSet(pending) : p.route = "POST /api/confirm-payment"}

\* the orders other than o are the same before and after the step
OthersUnchanged(o) ==
    /\ DOMAIN orders' = DOMAIN orders
    /\ \A x \in (DOMAIN orders) \ {o} : orders'[x] = orders[x]

\* C3: a step of POST /api/confirm-payment changes an order only when the
\* processor reported the intent as succeeded and the intent's metadata
\* orderId names an existing order, and then it changes only that order, to
\* paid or to confirmed; in every other case all orders stay as they were.
C3_ConfirmOnlyOnSuccess ==
    [][(ConfirmRetrieve \/ ConfirmResume \/ ConfirmFinish) =>
         \/ orders' = orders
         \/ \E p \in ConfirmHandlers :
               /\ p.piStatus = "succeeded"
               /\ intents[p.piId].status = "succeeded"
               /\ intents[p.piId].orderId = p.piOrderId
               /\ p.piOrderId \in DOMAIN orders
               /\ OthersUnchanged(p.piOrderId)
               /\ \/ /\ p.pc = "retrieved"
                     /\ orders'[p.piOrderId] =
                           [orders[p.piOrderId] EXCEPT
                               !.paymentStatus = "paid",
                               !.stripePaymentIntentId = p.piId]
                  \/ /\ p.pc = "updateOrderStatus"
                     /\ orders'[p.piOrderId] =
                           [orders[p.piOrderId] EXCEPT !.status = "confirmed"]
      ]_vars

\* a confirmation has just made one order paid and confirmed, next to an
\* order that is still pending
C3_Witness ==
    /\ res.route = "POST /api/confirm-payment"
    /\ res.status = 200
    /\ \E o, x \in DOMAIN orders :
          /\ orders[o].paymentStatus = "paid"
          /\ orders[o].status = "confirmed"
          /\ orders[x].status = "pending"

\* C4: for a user with a non-empty cart, after POST /api/orders, then
\* create-payment-intent for that order, then confirm-payment for that
\* intent while the processor reports success, with no other request in
\* between, the order is paid and confirmed and the user's cart is empty.
C4_Lifecycle ==
    flow.stage = "confirmed" =>
        /\ flow.orderId \in DOMAIN orders
        /\ orders[flow.orderId].userId = flow.userId
        /\ orders[flow.orderId].paymentStatus = "paid"
        /\ orders[flow.orderId].status = "confirmed"
        /\ getCartByUser(cartItems, flow.userId) = {}

\* the uninterrupted checkout has run to its end
C4_Witness ==
    /\ flow.stage = "confirmed"
    /\ res = Response("POST /api/confirm-payment", res.userId, 200, {})

\* C5: once an order's paymentStatus is paid it stays paid after every
\* later request.
C5_PaidIsFinal ==
    [][\A o \in DOMAIN orders :
          orders[o].paymentStatus = "paid" =>
              o \in DOMAIN orders' /\ orders'[o].paymentStatus = "paid"
      ]_vars

\* C6: GET /api/orders/:id returns the order only to its owner, and 404
\* without order data when the order does not exist or belongs to another
\* user; GET /api/orders returns exactly the caller's orders.
C6_OrderOwnership ==
    [][/\ \A u \in Users, id \in (DOMAIN orders) \cup {NoSuchId} :
            GetOrderReq(u, id) =>
                IF id \in DOMAIN orders /\ orders[id].userId = u
                THEN res' = Response("GET /api/orders/:id", u, 200,
                                     {orders[id]})
                ELSE res' = Response("GET /api/orders/:id", u, 404, {})
       /\ \A u \in Users :
            GetOrdersReq(u) =>
                /\ res'.status = 200
                /\ \A o \in res'.body : o.userId = u
                /\ \A id \in DOMAIN orders :
                      orders[id].userId = u => orders[id] \in res'.body
      ]_vars

\* a user has just been refused while the store holds orders of other users
\* only
C6_Witness ==
    /\ res.route = "GET /api/orders/:id"
    /\ res.status = 404
    /\ res.body = {}
    /\ orders # EmptyMap
    /\ \A id \in DOMAIN orders : orders[id].userId # res.userId

\* C7: every order in the store has totalAmount = sum over its line items
\* of price x quantity, plus deliveryFee.
C7_TotalMatchesItems ==
    \A id \in DOMAIN orders :
        orders[id].totalAmount =
            LineSum(orders[id].items) + orders[id].deliveryFee

\* C8: an accepted POST /api/orders stores the totalAmount, the items and
\* the deliveryFee of the request as they are, and no later step changes
\* them.
C8_TotalStoredVerbatim ==
    [][/\ \A u \in Users, body \in OrderBodies :
            (body.valid /\ PostOrdersReq(u, body)) =>
                /\ Cardinality((DOMAIN orders') \ (DOMAIN orders)) = 1
                /\ \A id \in (DOMAIN orders') \ (DOMAIN orders) :
                      /\ orders'[id].totalAmount = body.totalAmount
                      /\ orders'[id].items = body.items
                      /\ orders'[id].deliveryFee = body.deliveryFee
       /\ \A id \in DOMAIN orders :
            /\ id \in DOMAIN orders'
            /\ orders'[id].totalAmount = orders[id].totalAmount
            /\ orders'[id].items = orders[id].items
            /\ orders'[id].deliveryFee = orders[id].deliveryFee
      ]_vars

\* an order whose total does not match its line items has been paid
C8_Witness ==
    \E id \in DOMAIN orders :
        /\ orders[id].totalAmount #
              LineSum(orders[id].items) + orders[id].deliveryFee
        /\ orders[id].paymentStatus = "paid"
        /\ orders[id].status = "confirmed"

\* C9 as claimed: when the processor reports success for an intent without
\* orderId metadata, confirm-payment does not report success and no order
\* is mutated.
C9_NoOrderIdFails ==
    [][\A p \in ConfirmHandlers :
          (ConfirmAnswer(p) /\ p.piStatus = "succeeded" /\ p.piOrderId = None)
              => (res'.status # 200 /\ orders' = orders)
      ]_vars

\* C9 amended: when the processor reports success for an intent without
\* orderId metadata, confirm-payment answers 200 (success) and no order is
\* mutated.
C9_NoOrderIdSucceeds ==
    [][\A p \in ConfirmHandlers :
          (ConfirmAnswer(p) /\ p.piStatus = "succeeded" /\ p.piOrderId = None)
              => /\ res' = Response("POST /api/confirm-payment", p.userId,
                                    200, {})
                 /\ orders' = orders
      ]_vars

\* a confirmation has just been answered with 200 although no order is
\* confirmed: the intent carried no orderId
C9_Witness ==
    /\ res.route = "POST /api/confirm-payment"
    /\ res.status = 200
    /\ orders # EmptyMap
    /\ \A id \in DOMAIN orders : orders[id].status = "pending"
    /\ \E i \in DOMAIN intents :
          intents[i].status = "succeeded" /\ intents[i].orderId = None

\* C10: when the processor call of create-payment-intent fails, the answer
\* is 500 and every order is unchanged; the handler writes nothing to the
\* order store before the processor has answered.
C10_ProcessorErrorLeavesOrders ==
    [][/\ \A u \in Users, amount \in Amounts,
            orderId \in (DOMAIN orders) \cup {None, NoSuchId} :
            CreateIntentReq(u, amount, orderId, FALSE) =>
                /\ res' = Response("POST /api/create-payment-intent", u,
                                   500, {})
                /\ orders' = orders
                /\ pending' = pending
       /\ CreateIntentCall => orders' = orders
      ]_vars

\* a create-payment-intent has just failed at the processor while the store
\* holds a paid order and another order
C10_Witness ==
    /\ res.route = "POST /api/create-payment-intent"
    /\ res.status = 500
    /\ Cardinality(DOMAIN orders) >= 2
    /\ \E id \in DOMAIN orders : orders[id].paymentStatus = "paid"
    /\ \A i \in DOMAIN intents : intents[i].orderId \in DOMAIN orders

CreateIntentHandlers ==
    {p \in BagToSet(pending) : p.route = "POST /api/create-payment-intent"}

\* C11: when create-payment-intent succeeds for an existing order, the order
\* holds the id of the intent the processor created for this request and
\* paymentStatus pending, every other field of the order and every other
\* order is unchanged, and the answer is 200 with that intent's client
\* secret.
C11_IntentPersisted ==
    [][\A p \in CreateIntentHandlers :
          (CreateIntentAnswer(p) /\ p.piOrderId \in DOMAIN orders) =>
              /\ intents[p.piId].orderId = p.piOrderId
              /\ OthersUnchanged(p.piOrderId)
              /\ orders'[p.piOrderId] =
                    [orders[p.piOrderId] EXCEPT
                        !.paymentStatus = "pending",
                        !.stripePaymentIntentId = p.piId]
              /\ res' = Response("POST /api/create-payment-intent", p.userId,
                                 200,
                                 {[clientSecret |->
                                       intents[p.piId].client_secret]})
      ]_vars

\* an intent has just been stored on one order while another order holds no
\* intent
C11_Witness ==
    /\ res.route = "POST /api/create-payment-intent"
    /\ res.status = 200
    /\ \E o, x \in DOMAIN orders, i \in DOMAIN intents :
          /\ res.body = {[clientSecret |-> intents[i].client_secret]}
          /\ intents[i].orderId = o
          /\ orders[o].stripePaymentIntentId = i
          /\ orders[o].paymentStatus = "pending"
          /\ orders[o].status = "pending"
          /\ orders[x].stripePaymentIntentId = None

\* C12: an accepted POST /api/orders adds exactly one order, under an id no
\* existing order has, with status pending, paymentStatus pending and userId
\* the authenticated caller, whatever userId, status and paymentStatus the
\* body carries; the existing orders are unchanged.
C12_NewOrderPending ==
    [][\A u \in Users, body \in OrderBodies :
          (body.valid /\ PostOrdersReq(u, body)) =>
              \E id \in (DOMAIN orders') \ (DOMAIN orders) :
                 /\ DOMAIN orders' = (DOMAIN orders) \cup {id}
                 /\ \A x \in DOMAIN orders : orders'[x] = orders[x]
                 /\ orders'[id].id = id
                 /\ orders'[id].status = "pending"
                 /\ orders'[id].paymentStatus = "pending"
                 /\ orders'[id].userId = u
      ]_vars

\* a second order has just been created, by a caller other than the user
\* every body names as owner
C12_Witness ==
    /\ Cardinality(DOMAIN orders) >= 2
    /\ \E p \in BagToSet(pending) :
          /\ p.route = "POST /api/orders"
          /\ p.userId # NumUsers
          /\ p.order.id \in DOMAIN orders
          /\ orders[p.order.id].userId = p.userId
          /\ orders[p.order.id].status = "pending"
          /\ orders[p.order.id].paymentStatus = "pending"

OrderHandlers == {p \in BagToSet(pending) : p.route = "POST /api/orders"}

\* C13: when POST /api/orders answers, the cart of the caller holds no item
\* at all, the carts of the other users are as they were, and the answer is
\* 200 with the order that was created.
C13_OrderClearsWholeCart ==
    [][\A p \in OrderHandlers :
          PostOrdersResume(p) =>
              /\ getCartByUser(cartItems', p.userId) = {}
              /\ \A i \in DOMAIN cartItems :
                    cartItems[i].userId # p.userId =>
                        i \in DOMAIN cartItems' /\ cartItems'[i] = cartItems[i]
              /\ p.order.id \in DOMAIN orders
              /\ p.order.userId = p.userId
              /\ res' = Response("POST /api/orders", p.userId, 200, {p.order})
      ]_vars

\* an order has just been answered whose line items left out a food of the
\* cart; the cart is empty all the same, and another user still has a cart
C13_Witness ==
    /\ flow.stage = "ordered"
    /\ flow.foodItemId # None
    /\ res.route = "POST /api/orders"
    /\ res.status = 200
    /\ \A o \in res.body : \A k \in DOMAIN o.items :
          o.items[k].foodItemId # flow.foodItemId
    /\ getCartByUser(cartItems, flow.userId) = {}
    /\ cartItems # EmptyMap

\* C14: DELETE /api/cart/:id and DELETE /api/cart answer 200 whether or not
\* the target exists, and the store they leave is a fixed point of the
\* operation: removing the same id, or clearing the same user, once more
\* gives the same store; a second request in a row changes nothing.
C14_RemoveClearIdempotent ==
    [][/\ \A u \in Users, id \in IssuedIds \cup {NoSuchId} :
            (/\ res'.route = "DELETE /api/cart/:id"
             /\ res'.userId = u
             /\ DeleteCartItemReq(u, id)) =>
                /\ res' = Response("DELETE /api/cart/:id", u, 200, {})
                /\ removeFromCart(cartItems', id) = cartItems'
                /\ id \notin DOMAIN cartItems => cartItems' = cartItems
       /\ \A u \in Users :
            (res'.route = "DELETE /api/cart" /\ DeleteCartReq(u)) =>
                /\ res' = Response("DELETE /api/cart", u, 200, {})
                /\ clearCart(cartItems', u) = cartItems'
                /\ getCartByUser(cartItems, u) = {} => cartItems' = cartItems
       /\ flow'.stage \in {"removed twice", "cleared twice"} =>
            cartItems' = cartItems
      ]_vars

\* the same item has just been removed a second time, from a store that
\* still holds items
C14_Witness ==
    /\ flow.stage = "removed twice"
    /\ res = Response("DELETE /api/cart/:id", flow.userId, 200, {})
    /\ cartItems # EmptyMap

\* C15: PUT /api/cart/:id with an id that names no cart item answers 400 and
\* leaves the cart store as it was; with the id of an existing item it
\* answers 200 with the item and overwrites the quantity of that item only,
\* with the value given, also when the value is zero or negative.
C15_UpdateQuantity ==
    [][\A u \in Users, id \in IssuedIds \cup {NoSuchId}, q \in PutQuantities :
          (/\ res'.route = "PUT /api/cart/:id"
           /\ res'.userId = u
           /\ PutCartReq(u, id, q)) =>
              IF id \notin DOMAIN cartItems
              THEN /\ res' = Response("PUT /api/cart/:id", u, 400, {})
                   /\ cartItems' = cartItems
              ELSE /\ DOMAIN cartItems' = DOMAIN cartItems
                   /\ \A x \in (DOMAIN cartItems) \ {id} :
                         cartItems'[x] = cartItems[x]
                   /\ cartItems'[id] = [cartItems[id] EXCEPT !.quantity = q]
                   /\ res' = Response("PUT /api/cart/:id", u, 200,
                                      {cartItems'[id]})
      ]_vars

\* an update has just been refused for an unknown id, in a store where
\* earlier updates left one item at zero and one at a negative quantity
C15_Witness ==
    /\ res = Response("PUT /api/cart/:id", res.userId, 400, {})
    /\ \E i, j \in DOMAIN cartItems :
          cartItems[i].quantity = 0 /\ cartItems[j].quantity < 0

\* C16: no two stored users have the same email, also when two POST
\* /api/register requests with the same email are in flight together.
C16_EmailsUnique ==
    \A i, j \in DOMAIN users : users[i].email = users[j].email => i = j

\* C17: a request to a cart, order or payment route with no token is
\* answered 401 and one with an invalid token 403; neither changes the cart
\* store or the order store, and neither reaches the processor (no intent is
\* created and no handler is left waiting for it).
C17_TokenRequired ==
    [][\A token \in ClientTokens :
          (/\ token.kind # "valid"
           /\ CartRequest(token) \/ OrderRequest(token)
                 \/ PaymentRequest(token)) =>
              /\ res'.status = IF token.kind = "missing" THEN 401 ELSE 403
              /\ res'.body = {}
              /\ UNCHANGED <<users, cartItems, orders, idCount, intents,
                             pending>>
      ]_vars

\* a request has just been refused with 403 on a payment route while the
\* stores hold a cart item, an order and an intent
C17_Witness ==
    /\ res = Response("POST /api/confirm-payment", None, 403, {})
    /\ cartItems # EmptyMap
    /\ orders # EmptyMap
    /\ intents # EmptyMap

\* C18: updatePaymentStatus(orderId, paymentStatus, paymentIntentId?) throws
\* "Order not found" and leaves the store as it was when the order is
\* absent; otherwise it returns the order with paymentStatus overwritten,
\* the intent id replaced by paymentIntentId when one is given and kept when
\* none is, and id, owner, restaurant, items, totals and status as they
\* were; no other order changes.
C18_UpdatePaymentStatusFrame ==
    [][\A orderId \in (DOMAIN orders) \cup {NoSuchId},
          paymentStatus \in PaymentStatuses,
          paymentIntentId \in IntentArgs :
          (/\ res'.route = "updatePaymentStatus"
           /\ CallUpdatePaymentStatus(orderId, paymentStatus,
                                      paymentIntentId)) =>
              IF orderId \notin DOMAIN orders
              THEN /\ orders' = orders
                   /\ res' = Thrown("updatePaymentStatus", "Order not found")
              ELSE /\ OthersUnchanged(orderId)
                   /\ res'.body = {orders'[orderId]}
                   /\ orders'[orderId].paymentStatus = paymentStatus
                   /\ orders'[orderId].stripePaymentIntentId =
                         IF paymentIntentId # None THEN paymentIntentId
                         ELSE orders[orderId].stripePaymentIntentId
                   /\ \A field \in {"id", "userId", "restaurantId", "items",
                                     "totalAmount", "deliveryFee", "status"} :
                         orders'[orderId][field] = orders[orderId][field]
      ]_vars

\* the operation has just been called without an intent id on a confirmed
\* order that holds one, and set it to failed
C18_Witness ==
    /\ flow.stage = "payment status"
    /\ flow.piId = None
    /\ flow.orderId \in DOMAIN orders
    /\ orders[flow.orderId].stripePaymentIntentId # None
    /\ orders[flow.orderId].paymentStatus = "failed"
    /\ orders[flow.orderId].status = "confirmed"
    /\ res.body = {orders[flow.orderId]}

\* C19: no step removes an order, and a step that changes an existing order
\* is a step of create-payment-intent or of confirm-payment after the
\* processor has answered; cart requests, order reads, refused requests and
\* the creation of another order leave every existing order as it was.
C19_OrdersOnlyPaymentMutates ==
    [][/\ DOMAIN orders \subseteq DOMAIN orders'
       /\ (\E o \in DOMAIN orders : orders'[o] # orders[o]) =>
             (CreateIntentResume \/ ConfirmResume \/ ConfirmFinish)
       /\ \A token \in ClientTokens :
             (CartRequest(token) \/ OrderRequest(token)) =>
                 \A o \in DOMAIN orders : orders'[o] = orders[o]
      ]_vars

\* a second order has just been created and answered, next to an order that
\* the payment routes have made paid and confirmed
C19_Witness ==
    /\ res.route = "POST /api/orders"
    /\ res.status = 200
    /\ \E o, x \in DOMAIN orders :
          /\ o < x
          /\ orders[o].paymentStatus = "paid"
          /\ orders[o].status = "confirmed"
          /\ orders[o].stripePaymentIntentId # None
          /\ res.body = {orders[x]}

\* C20: every stored order has status pending or confirmed and
\* paymentStatus pending or paid, whatever the request body named, and an
\* order that is confirmed stays confirmed.
C20_StatusMachine ==
    [][/\ \A o \in DOMAIN orders' :
             /\ orders'[o].status \in {"pending", "confirmed"}
             /\ orders'[o].paymentStatus \in {"pending", "paid"}
       /\ \A o \in DOMAIN orders :
             orders[o].status = "confirmed" =>
                 o \in DOMAIN orders' /\ orders'[o].status = "confirmed"
      ]_vars

\* a confirmed order has been through a later create-payment-intent: its
\* paymentStatus is pending again, its status is still confirmed
C20_Witness ==
    \E o \in DOMAIN orders :
        /\ orders[o].status = "confirmed"
        /\ orders[o].paymentStatus = "pending"
        /\ res.route = "POST /api/create-payment-intent"
        /\ res.status = 200

\* C21: the amount of every intent created for an existing order is the
\* stored totalAmount of that order in minor units.
C21_IntentAmountIsOrderTotal ==
    \A i \in DOMAIN intents :
        intents[i].orderId \in DOMAIN orders =>
            intents[i].amount = ToPaise(orders[intents[i].orderId].totalAmount)

C23_SucceededLeadsToConfirmed ==
    \A o \in 1..MaxObjects :
        (/\ o \in DOMAIN orders
         /\ \E i \in DOMAIN intents :
               intents[i].orderId = o /\ intents[i].status = "succeeded")
        ~> (/\ o \in DOMAIN orders
            /\ orders[o].paymentStatus = "paid"
            /\ orders[o].status = "confirmed")

\* C24: DELETE /api/cart leaves the caller without any cart item and leaves
\* every item of every other user in place with its quantity, creating
\* nothing; DELETE /api/cart/:id deletes at most the item with that id and
\* changes no other item.
C24_ClearRemoveFrame ==
    [][/\ \A u \in Users :
            (/\ res'.route = "DELETE /api/cart"
             /\ res'.userId = u
             /\ DeleteCartReq(u)) =>
                /\ getCartByUser(cartItems', u) = {}
                /\ DOMAIN cartItems' \subseteq DOMAIN cartItems
                /\ \A i \in DOMAIN cartItems :
                      cartItems[i].userId # u =>
                          i \in DOMAIN cartItems' /\ cartItems'[i] = cartItems[i]
       /\ \A u \in Users, id \in IssuedIds \cup {NoSuchId} :
            (/\ res'.route = "DELETE /api/cart/:id"
             /\ res'.userId = u
             /\ DeleteCartItemReq(u, id)) =>
                /\ DOMAIN cartItems' \subseteq DOMAIN cartItems
                /\ (DOMAIN cartItems) \ (DOMAIN cartItems') \subseteq {id}
                /\ \A i \in DOMAIN cartItems' : cartItems'[i] = cartItems[i]
      ]_vars

\* a user has just cleared a cart that held items, and another user still
\* holds items
C24_Witness ==
    /\ flow.stage = "cleared"
    /\ res = Response("DELETE /api/cart", flow.userId, 200, {})
    /\ getCartByUser(cartItems, flow.userId) = {}
    /\ \E v \in Users \ {flow.userId} : getCartByUser(cartItems, v) # {}

\* C25: the delivery fee the Cart page and the Checkout page show is 0 for a
\* cart whose subtotal is at least 150 and 25 otherwise.
C25_FreeDeliveryFrom150 ==
    res.route \in {"Cart page", "Checkout page"} =>
        \A b \in res.body :
            b.deliveryFee = IF b.subtotal >= 150 THEN 0 ELSE 25

\* the cart items of the users other than u are the same before and after
\* the step
OtherCartsUnchanged(u) ==
    /\ \A i \in DOMAIN cartItems :
          cartItems[i].userId # u =>
              i \in DOMAIN cartItems' /\ cartItems'[i] = cartItems[i]
    /\ \A i \in DOMAIN cartItems' :
          cartItems'[i].userId # u => i \in DOMAIN cartItems

\* C26: a request of user u to POST /api/cart, PUT /api/cart/:id,
\* DELETE /api/cart/:id, DELETE /api/cart or POST /api/orders leaves the cart
\* items of every other user, and their quantities, as they were.
C26_OnlyOwnCart ==
    [][\A u \in Users :
          (/\ res'.userId = u
           /\ \/ /\ res'.route = "POST /api/cart"
                 /\ \E f \in Foods, q \in Quantities, valid \in BOOLEAN :
                       PostCartReq(u, f, q, valid)
              \/ /\ res'.route = "PUT /api/cart/:id"
                 /\ \E id \in IssuedIds \cup {NoSuchId}, q \in PutQuantities :
                       PutCartReq(u, id, q)
              \/ /\ res'.route = "DELETE /api/cart/:id"
                 /\ \E id \in IssuedIds \cup {NoSuchId} :
                       DeleteCartItemReq(u, id)
              \/ /\ res'.route = "DELETE /api/cart"
                 /\ DeleteCartReq(u)
              \/ /\ res'.route = "POST /api/orders"
                 /\ \E p \in OrderHandlers :
                       p.userId = u /\ PostOrdersResume(p))
          => OtherCartsUnchanged(u)
      ]_vars

\* C27: a step of a create-payment-intent or confirm-payment request of user
\* u changes only orders whose userId is u.
C27_OnlyOwnerPaymentState ==
    [][\A p \in BagToSet(pending) :
          (CreateIntentAnswer(p) \/ ConfirmAnswer(p) \/ ConfirmLast(p)) =>
              \A o \in DOMAIN orders :
                  orders'[o] # orders[o] => orders[o].userId = p.userId
      ]_vars

\* C28: in every reachable state an order whose status is confirmed has
\* paymentStatus paid.
C28_ConfirmedIsPaid ==
    \A o \in DOMAIN orders :
        orders[o].status = "confirmed" => orders[o].paymentStatus = "paid"

\* C29: the order the Checkout page submits from a cart that is not empty
\* has a totalAmount equal to the sum of price x quantity over its line items
\* plus its deliveryFee, every line item is a food of its restaurantId, and
\* every cart item deleted by the clear that follows is a line item of the
\* order.
C29_SubmittedOrderConsistent ==
    [][/\ \A u \in Users :
            CheckoutSubmitReq(u) =>
                LET d == orderData(cartWithDetails(u))
                IN  /\ d.totalAmount = LineSum(d.items) + d.deliveryFee
                    /\ \A k \in DOMAIN d.items :
                          RestaurantOf(d.items[k].foodItemId) = d.restaurantId
       /\ \A p \in OrderHandlers :
            PostOrdersResume(p) =>
                \A i \in (DOMAIN cartItems) \ (DOMAIN cartItems') :
                    \E k \in DOMAIN p.order.items :
                        p.order.items[k].foodItemId = cartItems[i].foodItemId
      ]_vars

\* C30: a POST /api/orders whose body fails the validation answers 400 and
\* leaves the orders, the cart items and the suspended handlers as they were;
\* a step of POST /api/orders deletes cart items only when it answers 200
\* with an order that is stored for the caller.
C30_RejectedOrderNoEffect ==
    [][/\ \A u \in Users, body \in {b \in OrderBodies : ~b.valid} :
            (res'.userId = u /\ PostOrdersReq(u, body)) =>
                /\ res' = Response("POST /api/orders", u, 400, {})
                /\ orders' = orders
                /\ cartItems' = cartItems
                /\ pending' = pending
       /\ (res'.route = "POST /api/orders" /\ res'.status # 200) =>
            orders' = orders /\ cartItems' = cartItems
       /\ \A p \in OrderHandlers :
            PostOrdersResume(p) =>
                /\ p.order.id \in DOMAIN orders
                /\ orders[p.order.id].userId = p.userId
                /\ res' = Response("POST /api/orders", p.userId, 200,
                                   {p.order})
                /\ \A i \in (DOMAIN cartItems) \ (DOMAIN cartItems') :
                      cartItems[i].userId = p.userId
      ]_vars

\* an order has just been rejected, and the caller still holds the cart
\* items; no order of the caller is stored
C30_Witness ==
    /\ res.route = "POST /api/orders"
    /\ res.status = 400
    /\ getCartByUser(cartItems, res.userId) # {}
    /\ getOrdersByUser(res.userId) = {}

====
